---------------------------- MODULE Spec2Model ----------------------------
(***************************************************************************)
(* Model of scripts/demo_ai_bot.py: class matrixonAIBot.                   *)
(*                                                                         *)
(* The bot is one coroutine, run(): it registers (or logs in), sets its    *)
(* profile, creates a room, and then loops: sync_events() long-polls the   *)
(* server with the stored cursor, process_events() walks the returned      *)
(* per-room timelines, handle_message_event() drops the bot's own messages *)
(* and hands the others to handle_command() or handle_ai_response(), each  *)
(* of which ends in one send_message().                                    *)
(*                                                                         *)
(* Strings that the code inspects (message bodies, command tokens) are     *)
(* sequences of one-character strings, so that startswith, split, lower    *)
(* and `in` are computed as Python computes them.                          *)
(***************************************************************************)
EXTENDS Integers, Sequences, FiniteSets, TLC

(***************************************************************************)
(* Bound of the model.                                                     *)
(***************************************************************************)
\* number of events in the server's stream (event ids / cursor positions 1..MaxPos)
MaxPos ==
  2

None == "None"
NoRound == "NoRound"

(***************************************************************************)
(* Values the server hands out.                                            *)
(***************************************************************************)
\* data["user_id"] of the register/login response: the session identity
BotId == "@demo_ai_bot:localhost"
OtherId == "@alice:localhost"
AccessToken == "tok"
\* data.get("device_id") of the register/login response
DeviceIds == {"DEV"}
DemoRoom == "!demo:localhost"
OtherRoom == "!other:localhost"
RoomIds == {DemoRoom, OtherRoom}

\* Sync cursors are opaque non-empty strings: Cursor(p) is the token the server
\* issues for "everything up to event p" of its stream.
Cursor(p) == ToString(p)
Cursors == { Cursor(p) : p \in 0..MaxPos }
\* the stream position a token stands for (the server's reading of it)
Pos(tok) == CHOOSE p \in 0..MaxPos : Cursor(p) = tok

(***************************************************************************)
(* Strings as sequences of characters.                                     *)
(***************************************************************************)
UpperLetters == <<"A","B","C","D","E","F","G","H","I","J","K","L","M",
                  "N","O","P","Q","R","S","T","U","V","W","X","Y","Z">>
LowerLetters == <<"a","b","c","d","e","f","g","h","i","j","k","l","m",
                  "n","o","p","q","r","s","t","u","v","w","x","y","z">>

\* str.lower() on one character
LowerChar(c) ==
  IF \E i \in 1..Len(UpperLetters) : UpperLetters[i] = c
  THEN LowerLetters[CHOOSE i \in 1..Len(UpperLetters) : UpperLetters[i] = c]
  ELSE c

\* str.lower()
Lower(s) == [i \in 1..Len(s) |-> LowerChar(s[i])]

\* str.startswith(prefix)
StartsWith(s, prefix) ==
  /\ Len(s) >= Len(prefix)
  /\ SubSeq(s, 1, Len(prefix)) = prefix

\* sub in s
Contains(s, sub) ==
  \E i \in 1..(Len(s) - Len(sub) + 1) : SubSeq(s, i, i + Len(sub) - 1) = sub

\* index of the first " " of s, 0 when there is none
FirstSpace(s) ==
  IF \E i \in 1..Len(s) : s[i] = " "
  THEN CHOOSE i \in 1..Len(s) : s[i] = " " /\ \A j \in 1..(i - 1) : s[j] # " "
  ELSE 0

\* command.split(" ", 1)
Split1(s) ==
  IF FirstSpace(s) = 0
  THEN << s >>
  ELSE << SubSeq(s, 1, FirstSpace(s) - 1), SubSeq(s, FirstSpace(s) + 1, Len(s)) >>

(***************************************************************************)
(* self.commands: the registry built in __init__.                          *)
(***************************************************************************)
Commands ==
  { <<"!","h","e","l","p">>,
    <<"!","t","i","m","e">>,
    <<"!","s","t","a","t","u","s">>,
    <<"!","p","i","n","g">>,
    <<"!","r","o","o","m","s">>,
    <<"!","s","t","a","t","s">>,
    <<"!","j","o","k","e">>,
    <<"!","w","e","a","t","h","e","r">>,
    <<"!","c","a","l","c">>,
    <<"!","q","u","o","t","e">> }

\* faulty variant: the quote command is not registered
Registry_NoQuote ==
  (<<"!","h","e","l","p">> :> "cmd_help")
  @@ (<<"!","t","i","m","e">> :> "cmd_time")
  @@ (<<"!","s","t","a","t","u","s">> :> "cmd_status")
  @@ (<<"!","p","i","n","g">> :> "cmd_ping")
  @@ (<<"!","r","o","o","m","s">> :> "cmd_rooms")
  @@ (<<"!","s","t","a","t","s">> :> "cmd_stats")
  @@ (<<"!","j","o","k","e">> :> "cmd_joke")
  @@ (<<"!","w","e","a","t","h","e","r">> :> "cmd_weather")
  @@ (<<"!","c","a","l","c">> :> "cmd_calculate")

\* the same dict with its values: the name of the method bound to each token
Registry ==
  (<<"!","h","e","l","p">> :> "cmd_help")
  @@ (<<"!","t","i","m","e">> :> "cmd_time")
  @@ (<<"!","s","t","a","t","u","s">> :> "cmd_status")
  @@ (<<"!","p","i","n","g">> :> "cmd_ping")
  @@ (<<"!","r","o","o","m","s">> :> "cmd_rooms")
  @@ (<<"!","s","t","a","t","s">> :> "cmd_stats")
  @@ (<<"!","j","o","k","e">> :> "cmd_joke")
  @@ (<<"!","w","e","a","t","h","e","r">> :> "cmd_weather")
  @@ (<<"!","c","a","l","c">> :> "cmd_calculate")
  @@ (<<"!","q","u","o","t","e">> :> "cmd_quote")

(***************************************************************************)
(* Message bodies the server may deliver, as JSON values.  NotAString is a  *)
(* body that is not a string (a number): content is not validated.         *)
(***************************************************************************)
Str(t) == [json |-> "string", text |-> t]
NotAString == [json |-> "number", text |-> << >>]
BodyPing == Str(<<"!","P","i","n","g"," ","x">>)
BodyNope == Str(<<"!","n","o","p","e">>)
BodyHi == Str(<<"h","i">>)
BodyBang == Str(<<"o","k","!">>)
Bodies == { BodyPing, BodyNope, BodyHi, NotAString }

\* isinstance(b, str)
IsString(b) == b.json = "string"

MessageType == "m.room.message"
MemberType == "m.room.member"

\* the timeline entries the server chooses from (event_id is added on delivery)
EventShapes ==
  { [type |-> MemberType, sender |-> OtherId, body |-> BodyHi],
    [type |-> MessageType, sender |-> BotId, body |-> BodyPing] }
  \cup
  { [type |-> MessageType, sender |-> OtherId, body |-> b] : b \in Bodies }

VARIABLES
  pc,            \* where run() is
  access_token,  \* self.access_token
  user_id,       \* self.user_id
  device_id,     \* self.device_id
  sync_token,    \* self.sync_token
  rooms,         \* self.rooms (its keys)
  running,       \* self.running
  stats,         \* self.stats
  since,         \* params.get("since") of the poll in flight (None: not sent)
  sync_data,     \* the dict sync_events() returned to run()
  todo,          \* what process_events() has still to visit: <<room_id, event>>
  prevRet,       \* history: the cursor the latest finished sync_events() call
                 \*   got from the server (None: it got none; NoRound: no call yet)
  lastRet,       \* history: the latest cursor any sync_events() call got (or None)
  routed,        \* history: calls of handle_command / handle_ai_response, this round
  sent,          \* history: send_message calls, this round
  dispatched,    \* history: per event id, how often it was routed in the run
  handed,        \* history: per event id, how often it was given to process_events
  raisedIds,     \* history: ids of the batches whose processing raised
  reqs,          \* history: per startup endpoint, the requests made in the run
  outcome,       \* history: how the latest sync_events() call ended
  inflight,      \* history: GET /sync requests issued and not yet answered
  cancelAt,      \* history: where run() was when it was cancelled ("none": it was not)
  commands,      \* self.commands: token -> name of the bound handler
  clock,         \* int(time.time() * 1000), as far as TxSpec follows it
  txLog          \* history: the tx_id of every PUT .../send, as far as TxSpec follows it

vars == << pc, access_token, user_id, device_id, sync_token, rooms, running,
           stats, since, sync_data, todo, prevRet, lastRet, routed, sent, dispatched,
           handed, raisedIds, reqs, outcome, inflight, cancelAt,
           commands, clock, txLog >>

session == << access_token, user_id, device_id >>
history == << prevRet, lastRet, routed, sent, dispatched, handed, raisedIds >>
aux == << reqs, outcome, inflight, cancelAt >>
\* what no step of run() writes: the registry; and the clock and the request
\* log, which only the specification of send_message (TxSpec) follows
rest == << commands, clock, txLog >>

EmptyData == [next_batch |-> None, join |-> << >>]

\* __init__
Init ==
  /\ pc = "register"
  /\ access_token = None
  /\ user_id = None
  /\ device_id = None
  /\ sync_token = None
  /\ rooms = {}
  /\ running = FALSE
  /\ stats = [messages_sent |-> 0, commands_processed |-> 0, rooms_joined |-> 0]
  /\ since = None
  /\ sync_data = EmptyData
  /\ todo = << >>
  /\ prevRet = NoRound
  /\ lastRet = None
  /\ routed = << >>
  /\ sent = << >>
  /\ dispatched = [p \in 1..MaxPos |-> 0]
  /\ handed = [p \in 1..MaxPos |-> 0]
  /\ raisedIds = {}
  /\ reqs = [register |-> 0, login |-> 0, profile |-> 0, create_room |-> 0]
  /\ outcome = "none"
  /\ inflight = 0
  /\ cancelAt = "none"
  /\ commands = Registry
  /\ clock = 0
  /\ txLog = << >>

(***************************************************************************)
(* send_message(room_id, message): one PUT; the server's answer is the     *)
(* input.  Every exception is caught inside, so the call always returns.   *)
(***************************************************************************)
SendResults == {"200", "error", "exception"}

\* faulty variant: every send is counted, acknowledged or not
StatsAfterSend_Always(st, res) ==
  [st EXCEPT !.messages_sent = @ + 1]

\* self.stats after the PUT was answered with res
StatsAfterSend(st, res) ==
  IF res = "200"
  THEN [st EXCEPT !.messages_sent = @ + 1]
  ELSE st

\* the entry of the send history: cause is the id of the event replied to
\* (0 for the welcome message)
SendEntry(room_id, message, cause, res) ==
  [room_id |-> room_id, body |-> message, cause |-> cause, ok |-> (res = "200")]

\* what a reply says beyond its kind: the form of the text a handler
\* returned and the number in it; NoOut for a text that is not computed
NoOut == [form |-> "text", value |-> 0]

WelcomeText == [kind |-> "welcome", key |-> << >>, args |-> << >>,
                sender |-> None, pick |-> 0, out |-> NoOut]

(***************************************************************************)
(* Startup: register_bot, login_bot, setup_profile, create_demo_room.      *)
(***************************************************************************)
\* register_bot(), status 200 with access_token and user_id in the body
RegisterOk ==
  /\ pc = "register"
  /\ \E dev \in DeviceIds :
       /\ access_token' = AccessToken
       /\ user_id' = BotId
       /\ device_id' = dev
  /\ pc' = "profile"
  /\ reqs' = [reqs EXCEPT !.register = @ + 1]
  /\ UNCHANGED << sync_token, rooms, running, stats, since, sync_data, todo,
                  history,
                  outcome, inflight, cancelAt, rest >>

\* register_bot(), errcode M_USER_IN_USE: falls through to login_bot()
RegisterInUse ==
  /\ pc = "register"
  /\ pc' = "login"
  /\ reqs' = [reqs EXCEPT !.register = @ + 1]
  /\ UNCHANGED << session, sync_token, rooms, running, stats, since, sync_data,
                  todo, history,
                  outcome, inflight, cancelAt, rest >>

\* register_bot(), any other error status or an exception: run() returns.
\* A 200 whose body has access_token but no user_id is among the exceptions
\* (KeyError), raised after the token was stored.
RegisterFailed ==
  /\ pc = "register"
  /\ pc' = "returned"
  /\ access_token' \in {access_token, AccessToken}
  /\ reqs' = [reqs EXCEPT !.register = @ + 1]
  /\ UNCHANGED << user_id, device_id, sync_token, rooms, running, stats, since,
                  sync_data, todo, history,
                  outcome, inflight, cancelAt, rest >>

\* faulty variant: login stores no device id
LoginOk_NoDevice ==
  /\ pc = "login"
  /\ access_token' = AccessToken
  /\ user_id' = BotId
  /\ device_id' = None
  /\ pc' = "profile"
  /\ reqs' = [reqs EXCEPT !.login = @ + 1]
  /\ UNCHANGED << sync_token, rooms, running, stats, since, sync_data, todo,
                  history, outcome, inflight, cancelAt, rest >>

\* login_bot(), status 200
LoginOk ==
  /\ pc = "login"
  /\ \E dev \in DeviceIds :
       /\ access_token' = AccessToken
       /\ user_id' = BotId
       /\ device_id' = dev
  /\ pc' = "profile"
  /\ reqs' = [reqs EXCEPT !.login = @ + 1]
  /\ UNCHANGED << sync_token, rooms, running, stats, since, sync_data, todo,
                  history,
                  outcome, inflight, cancelAt, rest >>

\* faulty variant: run() goes on after a login that failed
LoginFailed_GoOn ==
  /\ pc = "login"
  /\ pc' = "profile"
  /\ reqs' = [reqs EXCEPT !.login = @ + 1]
  /\ UNCHANGED << session, sync_token, rooms, running, stats, since, sync_data,
                  todo, history, outcome, inflight, cancelAt, rest >>

\* login_bot(), error status or exception (as in register_bot(), possibly
\* after the token was stored): register_bot() returns False
LoginFailed ==
  /\ pc = "login"
  /\ pc' = "returned"
  /\ access_token' \in {access_token, AccessToken}
  /\ reqs' = [reqs EXCEPT !.login = @ + 1]
  /\ UNCHANGED << user_id, device_id, sync_token, rooms, running, stats, since,
                  sync_data, todo, history,
                  outcome, inflight, cancelAt, rest >>

\* faulty variant: the room is not attempted, the loop starts at once
ProfileDone_SkipRoom ==
  /\ pc = "profile"
  /\ pc' = "idle"
  /\ running' = TRUE
  /\ reqs' = [reqs EXCEPT !.profile = @ + 1]
  /\ UNCHANGED << session, sync_token, rooms, stats, since, sync_data,
                  todo, history,
                  outcome, inflight, cancelAt, rest >>

\* setup_profile() returns True: status 200, or another status whose body parses
ProfileDone ==
  /\ pc = "profile"
  /\ pc' = "create_room"
  /\ reqs' = [reqs EXCEPT !.profile = @ + 1]
  /\ UNCHANGED << session, sync_token, rooms, running, stats, since, sync_data,
                  todo, history,
                  outcome, inflight, cancelAt, rest >>

\* setup_profile() returns False: the PUT (or reading the error body) raised;
\* run() logs and returns
ProfileRaised ==
  /\ pc = "profile"
  /\ pc' = "returned"
  /\ reqs' = [reqs EXCEPT !.profile = @ + 1]
  /\ UNCHANGED << session, sync_token, rooms, running, stats, since, sync_data,
                  todo, history,
                  outcome, inflight, cancelAt, rest >>

\* faulty variant: the room is recorded but not counted
CreateRoomOk_NoCount ==
  /\ pc = "create_room"
  /\ \E res \in SendResults :
       /\ rooms' = rooms \cup {DemoRoom}
       /\ stats' = StatsAfterSend(stats, res)
       /\ sent' = Append(sent, SendEntry(DemoRoom, WelcomeText, 0, res))
  /\ running' = TRUE
  /\ pc' = "idle"
  /\ reqs' = [reqs EXCEPT !.create_room = @ + 1]
  /\ UNCHANGED << session, sync_token, since, sync_data, todo, prevRet, lastRet, routed,
                  dispatched, handed, raisedIds,
                  outcome, inflight, cancelAt, rest >>

\* create_demo_room(), status 200: the room is recorded and the welcome
\* message sent; then run() sets self.running
CreateRoomOk ==
  /\ pc = "create_room"
  /\ \E res \in SendResults :
       /\ rooms' = rooms \cup {DemoRoom}
       /\ stats' = StatsAfterSend([stats EXCEPT !.rooms_joined = @ + 1], res)
       /\ sent' = Append(sent, SendEntry(DemoRoom, WelcomeText, 0, res))
  /\ running' = TRUE
  /\ pc' = "idle"
  /\ reqs' = [reqs EXCEPT !.create_room = @ + 1]
  /\ UNCHANGED << session, sync_token, since, sync_data, todo, prevRet, lastRet, routed,
                  dispatched, handed, raisedIds,
                  outcome, inflight, cancelAt, rest >>

\* create_demo_room(), error status or exception: returns None
CreateRoomFailed ==
  /\ pc = "create_room"
  /\ running' = TRUE
  /\ pc' = "idle"
  /\ reqs' = [reqs EXCEPT !.create_room = @ + 1]
  /\ UNCHANGED << session, sync_token, rooms, stats, since, sync_data, todo,
                  history,
                  outcome, inflight, cancelAt, rest >>

(***************************************************************************)
(* sync_events(): one long poll.                                           *)
(***************************************************************************)
\* faulty variant: the stored cursor is never sent
SinceParam_Never(tok) ==
  None

\* params.get("since"): sent only when self.sync_token is truthy
SinceParam(tok) ==
  IF tok # None /\ tok # ""
  THEN tok
  ELSE None

\* faulty variant: the returned cursor is not stored when the response arrives
CursorAfterSync_Keep(old, next_batch) ==
  old

\* self.sync_token after a 200 response: self.sync_token = data["next_batch"]
CursorAfterSync(old, next_batch) ==
  next_batch

\* faulty variant: the batch is processed in the background and the next
\* poll is issued without waiting for it
IssuePoll_Eager ==
  /\ pc \in {"idle", "processing"}
  /\ running
  /\ since' = SinceParam(sync_token)
  /\ sync_data' = EmptyData
  /\ routed' = << >>
  /\ sent' = << >>
  /\ pc' = "polling"
  /\ outcome' = "pending"
  /\ inflight' = inflight + 1
  /\ UNCHANGED << session, sync_token, rooms, running, stats, todo, prevRet, lastRet,
                  dispatched, handed, raisedIds, reqs, cancelAt, rest >>

\* top of the while loop: sync_events() builds params and issues the GET
IssuePoll ==
  /\ pc = "idle"
  /\ running
  /\ since' = SinceParam(sync_token)
  /\ sync_data' = EmptyData
  /\ routed' = << >>
  /\ sent' = << >>
  /\ pc' = "polling"
  /\ outcome' = "pending"
  /\ inflight' = inflight + 1
  /\ UNCHANGED << session, sync_token, rooms, running, stats, todo, prevRet, lastRet,
                  dispatched, handed, raisedIds,
                  reqs, cancelAt, rest >>

\* The server: asked for what follows `tok` (everything, when no cursor is
\* sent), it answers with the events after that position up to a position of
\* its choice, and the cursor of that position.
Base(tok) == IF tok = None THEN 0 ELSE Pos(tok)

\* the ids base+1..nb in stream order
Ids(base, nb) == [i \in 1..(nb - base) |-> base + i]

\* room's timeline: the events of the answer that are in room, in stream order
Timeline(base, nb, shape, rm, room) ==
  LET sel == SelectSeq(Ids(base, nb), LAMBDA p : rm[p] = room)
  IN  [j \in 1..Len(sel) |->
         [event_id |-> sel[j], type |-> shape[sel[j]].type,
          sender |-> shape[sel[j]].sender, body |-> shape[sel[j]].body]]

\* data["rooms"]["join"] as the ordered mapping Python iterates: the rooms
\* that have events, in the server's order
Join(base, nb, shape, rm, order) ==
  LET all == [k \in 1..Len(order) |->
                [room_id |-> order[k],
                 events |-> Timeline(base, nb, shape, rm, order[k])]]
  IN  SelectSeq(all, LAMBDA e : e.events # << >>)

RoomOrders == { <<DemoRoom, OtherRoom>>, <<OtherRoom, DemoRoom>> }

\* process_events(): the nested loops over joined_rooms.items() and each
\* room's timeline events visit the entries in this order
RECURSIVE Flatten(_)
Flatten(join) ==
  IF join = << >>
  THEN << >>
  ELSE [j \in 1..Len(Head(join).events) |->
          << Head(join).room_id, Head(join).events[j] >>]
       \o Flatten(Tail(join))

\* the event ids of a batch
BatchIds(data) ==
  { Flatten(data.join)[i][2].event_id : i \in 1..Len(Flatten(data.join)) }

\* sync_events(), status 200 and a body with next_batch: the cursor is stored
\* and the body returned; it is truthy, so run() calls process_events() on it
SyncOk ==
  /\ pc = "polling"
  /\ \E nb \in Base(since)..MaxPos :
     \E shape \in [(Base(since) + 1)..nb -> EventShapes] :
     \E rm \in [(Base(since) + 1)..nb -> RoomIds] :
     \E order \in RoomOrders :
       LET data == [next_batch |-> Cursor(nb),
                    join |-> Join(Base(since), nb, shape, rm, order)]
       IN  /\ sync_token' = CursorAfterSync(sync_token, data.next_batch)
           /\ sync_data' = data
           /\ todo' = Flatten(data.join)
           /\ prevRet' = data.next_batch
           /\ lastRet' = data.next_batch
           /\ handed' = [p \in 1..MaxPos |->
                           IF p \in BatchIds(data) THEN handed[p] + 1 ELSE handed[p]]
  /\ pc' = "processing"
  /\ outcome' = "ok"
  /\ inflight' = inflight - 1
  /\ UNCHANGED << session, rooms, running, stats, since, routed, sent,
                  dispatched, raisedIds,
                  reqs, cancelAt, rest >>

\* faulty variant: an unsuccessful poll forgets the cursor
ReturnEmpty_Reset ==
  /\ sync_token' = None
  /\ sync_data' = EmptyData
  /\ prevRet' = None
  /\ pc' = "sleep"
  /\ inflight' = inflight - 1
  /\ UNCHANGED << session, rooms, running, stats, since, todo,
                  lastRet, routed, sent, dispatched, handed, raisedIds,
                  reqs, cancelAt, rest >>

\* what every unsuccessful sync_events() does: return {} and touch nothing;
\* run() finds it falsy and goes to its short sleep
ReturnEmpty ==
  /\ sync_data' = EmptyData
  /\ prevRet' = None
  /\ pc' = "sleep"
  /\ inflight' = inflight - 1
  /\ UNCHANGED << session, sync_token, rooms, running, stats, since, todo,
                  lastRet, routed, sent, dispatched, handed, raisedIds,
                  reqs, cancelAt, rest >>

\* sync_events(): asyncio.TimeoutError
SyncTimeout ==
  /\ pc = "polling"
  /\ ReturnEmpty
  /\ outcome' = "timeout"

\* faulty variant: a rejected poll drops the credential
SyncBadStatus_Logout ==
  /\ pc = "polling"
  /\ sync_data' = EmptyData
  /\ prevRet' = None
  /\ pc' = "sleep"
  /\ inflight' = inflight - 1
  /\ access_token' = None
  /\ outcome' = "status"
  /\ UNCHANGED << user_id, device_id, sync_token, rooms, running, stats, since, todo,
                  lastRet, routed, sent, dispatched, handed, raisedIds,
                  reqs, cancelAt, rest >>

\* sync_events(): a status other than 200
SyncBadStatus ==
  /\ pc = "polling"
  /\ ReturnEmpty
  /\ outcome' = "status"

\* sync_events(): any other exception: a connection failure, or a 200 whose
\* body does not parse or has no next_batch (KeyError)
SyncRaised ==
  /\ pc = "polling"
  /\ ReturnEmpty
  /\ outcome' = "raised"

(***************************************************************************)
(* process_events / handle_message_event / handle_command /                *)
(* handle_ai_response.  One step visits one timeline entry.                *)
(***************************************************************************)
\* faulty variant: the self-echo test is missing
IsOwnMessage_Never(sender, uid) ==
  FALSE

\* if sender == self.user_id: return
IsOwnMessage(sender, uid) ==
  sender = uid

\* faulty variant: "!" anywhere in the body
IsCommand_Anywhere(text) ==
  Contains(text, << "!" >>)

\* message_body.startswith("!")
IsCommand(text) ==
  StartsWith(text, << "!" >>)

\* faulty variant: the token is looked up as typed
CmdOf_AsTyped(command) ==
  Split1(command)[1]

\* cmd = cmd_parts[0].lower()
CmdOf(command) ==
  Lower(Split1(command)[1])

\* args = cmd_parts[1] if len(cmd_parts) > 1 else ""
ArgsOf(command) ==
  IF Len(Split1(command)) > 1
  THEN Split1(command)[2]
  ELSE << >>

\* if cmd in self.commands
IsRegistered(cmd) ==
  cmd \in DOMAIN commands

\* faulty variant: the counter is incremented before the registry test
StatsAfterCommand_Always(st, cmd) ==
  [st EXCEPT !.commands_processed = @ + 1]

\* self.stats["commands_processed"] += 1, inside the `if cmd in self.commands`
StatsAfterCommand(st, cmd) ==
  IF IsRegistered(cmd)
  THEN [st EXCEPT !.commands_processed = @ + 1]
  ELSE st

(***************************************************************************)
(* cmd_calculate(args, sender): eval(args.replace("^", "**")) inside a     *)
(* bare except.  eval is modelled on the expressions made of decimal       *)
(* literals, spaces and the operators + - * / **: a lone literal and       *)
(* `literal operator literal` are evaluated as Python evaluates them, an   *)
(* expression that is empty or ends in an operator is a SyntaxError, and   *)
(* anything else is outside the model ("unmodelled").                      *)
(***************************************************************************)
Digits == <<"0","1","2","3","4","5","6","7","8","9">>
IsDigit(c) == \E i \in 1..Len(Digits) : Digits[i] = c
DigitVal(c) == (CHOOSE i \in 1..Len(Digits) : Digits[i] = c) - 1

\* args.replace("^", "**")
RECURSIVE ReplaceCaret(_)
ReplaceCaret(s) ==
  IF s = << >>
  THEN << >>
  ELSE (IF Head(s) = "^" THEN << "*", "*" >> ELSE << Head(s) >>)
       \o ReplaceCaret(Tail(s))

\* the length of the run of digits s starts with
DigitRun(s) ==
  CHOOSE n \in 1..Len(s) :
    /\ \A i \in 1..n : IsDigit(s[i])
    /\ n = Len(s) \/ ~ IsDigit(s[n + 1])

\* the value of a run of digits
RECURSIVE NumVal(_)
NumVal(ds) ==
  IF ds = << >>
  THEN 0
  ELSE 10 * NumVal(SubSeq(ds, 1, Len(ds) - 1)) + DigitVal(ds[Len(ds)])

\* a decimal literal with a leading zero is a SyntaxError unless it is zero
ValidLiteral(ds) ==
  Len(ds) = 1 \/ ds[1] # "0" \/ NumVal(ds) = 0

NumTok(ds) == [t |-> "num", n |-> NumVal(ds), op |-> "", valid |-> ValidLiteral(ds)]
OpTok(o) == [t |-> "op", n |-> 0, op |-> o, valid |-> TRUE]
OtherTok == [t |-> "other", n |-> 0, op |-> "", valid |-> TRUE]

\* the tokens of the expression: spaces separate, "**" is one operator
RECURSIVE Tokens(_)
Tokens(s) ==
  IF s = << >>
  THEN << >>
  ELSE IF Head(s) = " "
  THEN Tokens(Tail(s))
  ELSE IF IsDigit(Head(s))
  THEN << NumTok(SubSeq(s, 1, DigitRun(s))) >>
       \o Tokens(SubSeq(s, DigitRun(s) + 1, Len(s)))
  ELSE IF StartsWith(s, << "*", "*" >>)
  THEN << OpTok("**") >> \o Tokens(SubSeq(s, 3, Len(s)))
  ELSE IF Head(s) \in {"+", "-", "*", "/"}
  THEN << OpTok(Head(s)) >> \o Tokens(Tail(s))
  ELSE << OtherTok >> \o Tokens(Tail(s))

RECURSIVE Pow(_, _)
Pow(a, b) == IF b = 0 THEN 1 ELSE a * Pow(a, b - 1)

Value(n) == [status |-> "value", value |-> n]
Raises == [status |-> "raises", value |-> 0]
Unmodelled == [status |-> "unmodelled", value |-> 0]

\* a binary operator applied to two ints; int / int is a float unless the
\* divisor is zero, which raises ZeroDivisionError
Apply(a, o, b) ==
  IF o = "+" THEN Value(a + b)
  ELSE IF o = "-" THEN Value(a - b)
  ELSE IF o = "*" THEN Value(a * b)
  ELSE IF o = "**" THEN Value(Pow(a, b))
  ELSE IF b = 0 THEN Raises
  ELSE Unmodelled

\* eval() of the expression with these tokens
Eval(toks) ==
  IF toks = << >>
  THEN Raises
  ELSE IF \E i \in 1..Len(toks) : toks[i].t = "other"
  THEN Unmodelled
  ELSE IF toks[Len(toks)].t = "op" \/ \E i \in 1..Len(toks) : ~ toks[i].valid
  THEN Raises
  ELSE IF Len(toks) = 1
  THEN Value(toks[1].n)
  ELSE IF Len(toks) = 3 /\ toks[1].t = "num" /\ toks[2].t = "op"
  THEN Apply(toks[1].n, toks[2].op, toks[3].n)
  ELSE Unmodelled

\* faulty variant: the expression is echoed without being evaluated
CmdCalculate_NoEval(args, sender) ==
  IF args = << >>
  THEN [form |-> "usage", value |-> 0]
  ELSE [form |-> "result", value |-> 0]

\* the text cmd_calculate returns: the usage text for empty args, the
\* "{args} = {result}" text when eval returns, the "Invalid expression"
\* text when eval raises anything
CmdCalculate(args, sender) ==
  IF args = << >>
  THEN [form |-> "usage", value |-> 0]
  ELSE IF Eval(Tokens(ReplaceCaret(args))).status = "value"
  THEN [form |-> "result", value |-> Eval(Tokens(ReplaceCaret(args))).value]
  ELSE IF Eval(Tokens(ReplaceCaret(args))).status = "raises"
  THEN [form |-> "invalid", value |-> 0]
  ELSE [form |-> "unmodelled", value |-> 0]

CalcToken == <<"!","c","a","l","c">>

\* faulty variant: the help text echoes its arguments
CmdHelp_Echo(args, sender) ==
  [form |-> "help", value |-> Len(args)]

\* cmd_help(args, sender): the help_text literal, which reads neither
\* parameter
CmdHelp(args, sender) ==
  [form |-> "help", value |-> 0]

\* cmd_ping(args, sender): the "Pong!" text addressed to the sender
CmdPing(args, sender) ==
  [form |-> "pong", value |-> 0]

\* response = await self.commands[cmd](args, sender): the call of the method
\* the registry binds to the token
HandlerOut(cmd, args, sender) ==
  IF commands[cmd] = "cmd_calculate"
  THEN CmdCalculate(args, sender)
  ELSE IF commands[cmd] = "cmd_help"
  THEN CmdHelp(args, sender)
  ELSE IF commands[cmd] = "cmd_ping"
  THEN CmdPing(args, sender)
  ELSE NoOut

\* faulty variant: no fallback, the reply is always taken from a handler
CommandReply_NoFallback(cmd, args, sender) ==
  [kind |-> "handler", key |-> cmd, args |-> args, sender |-> sender,
   pick |-> 0, out |-> NoOut]

\* the text handle_command() sends: the handler's return value on a hit,
\* the "Unknown command: {cmd}" text on a miss
CommandReply(cmd, args, sender) ==
  IF IsRegistered(cmd)
  THEN [kind |-> "handler", key |-> cmd, args |-> args, sender |-> sender,
        pick |-> 0, out |-> HandlerOut(cmd, args, sender)]
  ELSE [kind |-> "unknown", key |-> cmd, args |-> << >>, sender |-> None,
        pick |-> 0, out |-> NoOut]

\* faulty variant: the gratitude rule is tried before the other two
AiCategory_ThanksFirst(message) ==
  IF Contains(Lower(message), << "t","h","a","n","k" >>)
  THEN "thanks"
  ELSE IF \/ Contains(Lower(message), << "h","e","l","l","o" >>)
          \/ Contains(Lower(message), << "h","i" >>)
  THEN "greeting"
  ELSE IF Contains(Lower(message), << "h","o","w"," ","a","r","e"," ","y","o","u" >>)
  THEN "wellbeing"
  ELSE "generic"

\* handle_ai_response(): the if/elif chain choosing the list of responses
AiCategory(message) ==
  IF \/ Contains(Lower(message), << "h","e","l","l","o" >>)
     \/ Contains(Lower(message), << "h","i" >>)
  THEN "greeting"
  ELSE IF Contains(Lower(message), << "h","o","w"," ","a","r","e"," ","y","o","u" >>)
  THEN "wellbeing"
  ELSE IF Contains(Lower(message), << "t","h","a","n","k" >>)
  THEN "thanks"
  ELSE "generic"

\* every list of responses has three entries; random.choice picks one
Picks == 1..3

\* self.ai_responses has five entries; the first generic template embeds
\* random.choice(self.ai_responses)
AiResponses == 1..5

\* message[:30]
Prefix30(message) ==
  SubSeq(message, 1, IF Len(message) < 30 THEN Len(message) ELSE 30)

\* the draws of random.choice(self.ai_responses) a reply can show: the list
\* is read by the first generic template only
Quotes(message, pick) ==
  IF AiCategory(message) = "generic" /\ pick = 1 THEN AiResponses ELSE {0}

\* the list `responses` the chain builds: per template, what it interpolates
\* (the sender, the message prefix, the drawn entry of self.ai_responses)
Responses(message, sender, quote) ==
  LET cat == AiCategory(message)
  IN  [n \in Picks |->
         [kind |-> "ai", key |-> cat,
          args |-> IF cat = "generic" /\ n = 2 THEN Prefix30(message) ELSE << >>,
          sender |-> IF cat = "greeting" \/ (cat = "generic" /\ n # 2)
                     THEN sender ELSE None,
          pick |-> n,
          out |-> IF cat = "generic" /\ n = 1
                  THEN [form |-> "quote", value |-> quote] ELSE NoOut]]

\* response = random.choice(responses)
AiReply(message, sender, pick, quote) ==
  Responses(message, sender, quote)[pick]

\* the entry of the routing history: the handler called and its arguments
RouteEntry(room_id, event, via) ==
  [event_id |-> event.event_id, room_id |-> room_id, via |-> via,
   sender |-> event.sender, body |-> event.body.text]

\* the entry process_events() visits next
NextRoom == Head(todo)[1]
NextEvent == Head(todo)[2]

\* an entry that is not an m.room.message is passed over
ProcessSkip ==
  /\ pc = "processing"
  /\ todo # << >>
  /\ NextEvent.type # MessageType
  /\ todo' = Tail(todo)
  /\ UNCHANGED << pc, session, sync_token, rooms, running, stats, since,
                  sync_data, history,
                  aux, rest >>

\* handle_message_event(): the bot's own message: return
ProcessOwn ==
  /\ pc = "processing"
  /\ todo # << >>
  /\ NextEvent.type = MessageType
  /\ IsOwnMessage(NextEvent.sender, user_id)
  /\ todo' = Tail(todo)
  /\ UNCHANGED << pc, session, sync_token, rooms, running, stats, since,
                  sync_data, history,
                  aux, rest >>

\* handle_message_event(): message_body[:50] on a body that is not a string
\* raises TypeError; it leaves process_events() and is caught by run()'s
\* `except Exception`, which abandons the batch (todo keeps the entry that
\* raised and those never visited) and sleeps 5 s
ProcessRaise ==
  /\ pc = "processing"
  /\ todo # << >>
  /\ NextEvent.type = MessageType
  /\ ~ IsOwnMessage(NextEvent.sender, user_id)
  /\ ~ IsString(NextEvent.body)
  /\ raisedIds' = raisedIds \cup BatchIds(sync_data)
  /\ pc' = "cooldown"
  /\ UNCHANGED << session, sync_token, rooms, running, stats, since, sync_data,
                  todo, prevRet, lastRet, routed, sent, dispatched, handed,
                  aux, rest >>

\* faulty variant: a send that failed is attempted a second time
HandleCommand_Retry(room_id, command, sender, cause, res) ==
  /\ stats' = StatsAfterSend(StatsAfterCommand(stats, CmdOf(command)), res)
  /\ sent' = (IF res = "200" THEN sent
              ELSE Append(sent,
                          SendEntry(room_id,
                                    CommandReply(CmdOf(command), ArgsOf(command), sender),
                                    cause, res)))
             \o << SendEntry(room_id,
                             CommandReply(CmdOf(command), ArgsOf(command), sender),
                             cause, res) >>

\* handle_command(room_id, command, sender) and its send_message()
HandleCommand(room_id, command, sender, cause, res) ==
  /\ stats' = StatsAfterSend(StatsAfterCommand(stats, CmdOf(command)), res)
  /\ sent' = Append(sent,
                    SendEntry(room_id,
                              CommandReply(CmdOf(command), ArgsOf(command), sender),
                              cause, res))

\* handle_ai_response(room_id, message, sender) and its send_message()
HandleAiResponse(room_id, message, sender, cause, res, pick, quote) ==
  /\ stats' = StatsAfterSend(stats, res)
  /\ sent' = Append(sent,
                    SendEntry(room_id, AiReply(message, sender, pick, quote),
                              cause, res))

\* handle_message_event(): a body starting with "!" goes to handle_command()
ProcessCommand ==
  /\ pc = "processing"
  /\ todo # << >>
  /\ NextEvent.type = MessageType
  /\ ~ IsOwnMessage(NextEvent.sender, user_id)
  /\ IsString(NextEvent.body)
  /\ IsCommand(NextEvent.body.text)
  /\ \E res \in SendResults :
       HandleCommand(NextRoom, NextEvent.body.text, NextEvent.sender,
                     NextEvent.event_id, res)
  /\ routed' = Append(routed, RouteEntry(NextRoom, NextEvent, "handle_command"))
  /\ dispatched' = [dispatched EXCEPT ![NextEvent.event_id] = @ + 1]
  /\ todo' = Tail(todo)
  /\ UNCHANGED << pc, session, sync_token, rooms, running, since, sync_data,
                  prevRet, lastRet, handed, raisedIds,
                  aux, rest >>

\* handle_message_event(): any other body goes to handle_ai_response()
ProcessFreeText ==
  /\ pc = "processing"
  /\ todo # << >>
  /\ NextEvent.type = MessageType
  /\ ~ IsOwnMessage(NextEvent.sender, user_id)
  /\ IsString(NextEvent.body)
  /\ ~ IsCommand(NextEvent.body.text)
  /\ \E res \in SendResults, pick \in Picks :
       \E quote \in Quotes(NextEvent.body.text, pick) :
         HandleAiResponse(NextRoom, NextEvent.body.text, NextEvent.sender,
                          NextEvent.event_id, res, pick, quote)
  /\ routed' = Append(routed, RouteEntry(NextRoom, NextEvent, "handle_ai_response"))
  /\ dispatched' = [dispatched EXCEPT ![NextEvent.event_id] = @ + 1]
  /\ todo' = Tail(todo)
  /\ UNCHANGED << pc, session, sync_token, rooms, running, since, sync_data,
                  prevRet, lastRet, handed, raisedIds,
                  aux, rest >>

\* process_events() returns; run() goes to asyncio.sleep(0.1)
ProcessDone ==
  /\ pc = "processing"
  /\ todo = << >>
  /\ pc' = "sleep"
  /\ UNCHANGED << session, sync_token, rooms, running, stats, since, sync_data,
                  todo, history,
                  aux, rest >>

\* await asyncio.sleep(0.1), then the while test; the iteration is over and
\* the history of its round is dropped with it
Sleep ==
  /\ pc = "sleep"
  /\ pc' = "idle"
  /\ sync_data' = EmptyData
  /\ routed' = << >>
  /\ sent' = << >>
  /\ UNCHANGED << session, sync_token, rooms, running, stats, since, todo,
                  prevRet, lastRet, dispatched, handed, raisedIds,
                  aux, rest >>
\* faulty variant: after the cool-down the loop resumes the batch behind the
\* entry that raised
CoolDown_Resume ==
  /\ pc = "cooldown"
  /\ pc' = "processing"
  /\ todo' = Tail(todo)
  /\ UNCHANGED << session, sync_token, rooms, running, stats, since, sync_data,
                  prevRet, lastRet, routed, sent, dispatched, handed, raisedIds,
                  aux, rest >>

\* except Exception: await asyncio.sleep(5), then the while test; the
\* iteration is over and the history of its round is dropped with it
CoolDown ==
  /\ pc = "cooldown"
  /\ pc' = "idle"
  /\ todo' = << >>
  /\ sync_data' = EmptyData
  /\ routed' = << >>
  /\ sent' = << >>
  /\ UNCHANGED << session, sync_token, rooms, running, stats, since,
                  prevRet, lastRet, dispatched, handed, raisedIds,
                  aux, rest >>

(***************************************************************************)
(* Cancellation from outside: SIGINT while asyncio.run(main()) is running. *)
(* run() installs no handler and nothing outside run() writes              *)
(* self.running, so what the signal does is what the interpreter does.     *)
(* From Python 3.11 on asyncio.run() cancels the main task: CancelledError *)
(* is raised at the await run() is suspended in.  Before 3.11 the signal   *)
(* raises KeyboardInterrupt in the main thread: in the event loop (the     *)
(* task is then cancelled while asyncio.run() unwinds) or, when the        *)
(* coroutine's own code is executing, inside run().  Both outcomes are     *)
(* modelled; a handler's step is atomic here, so a cancellation during a   *)
(* handler's send is taken before the entry is visited.                    *)
(***************************************************************************)
\* the values of pc at which run() is over
Ended == {"returned", "stopped", "cancelled"}

\* what both ways of ending the loop share: run()'s locals die and the
\* history of the round in progress is dropped
DropRound ==
  /\ since' = None
  /\ sync_data' = EmptyData
  /\ todo' = << >>
  /\ routed' = << >>
  /\ sent' = << >>
  /\ inflight' = 0

\* CancelledError (a BaseException) is raised at the current await, or
\* KeyboardInterrupt outside the loop's try: neither `except
\* asyncio.TimeoutError` / `except Exception` in sync_events() nor run()'s
\* handlers catch it, so it leaves run() at once; a GET /sync in flight is
\* abandoned
Interrupt ==
  /\ pc \notin Ended
  /\ cancelAt' = pc
  /\ pc' = "cancelled"
  /\ outcome' = (IF pc = "polling" THEN "cancelled" ELSE outcome)
  /\ DropRound
  /\ UNCHANGED << session, sync_token, rooms, running, stats, prevRet, lastRet,
                  dispatched, handed, raisedIds, reqs, rest >>

\* KeyboardInterrupt raised while process_events() is executing (before
\* Python 3.11): it is caught by run()'s `except KeyboardInterrupt`, which
\* clears self.running; the rest of the batch is not visited and the while
\* test ends the loop
InterruptCaught ==
  /\ pc = "processing"
  /\ cancelAt' = pc
  /\ running' = FALSE
  /\ pc' = "stopped"
  /\ DropRound
  /\ UNCHANGED << session, sync_token, rooms, stats, prevRet, lastRet,
                  dispatched, handed, raisedIds, reqs, outcome, rest >>

Next ==
  \/ RegisterOk
  \/ RegisterInUse
  \/ RegisterFailed
  \/ LoginOk
  \/ LoginFailed
  \/ ProfileDone
  \/ ProfileRaised
  \/ CreateRoomOk
  \/ CreateRoomFailed
  \/ IssuePoll
  \/ SyncOk
  \/ SyncTimeout
  \/ SyncBadStatus
  \/ SyncRaised
  \/ ProcessSkip
  \/ ProcessOwn
  \/ ProcessRaise
  \/ ProcessCommand
  \/ ProcessFreeText
  \/ ProcessDone
  \/ Sleep
  \/ CoolDown
  \/ Interrupt
  \/ InterruptCaught

Spec == Init /\ [][Next]_vars

(***************************************************************************)
(* handle_command() and the handlers as functions of the message: the bot  *)
(* has started (registered, profile set, room created, welcome sent), its  *)
(* first poll has returned a batch of MaxPos messages from another user in *)
(* one room, and process_events() is about to walk it.  The bodies are     *)
(* drawn from a larger set than the server of Spec delivers.               *)
(***************************************************************************)
DispatchBodies ==
  { Str(<<"!","p","i","n","g">>),
    Str(<<"!","P","I","N","G">>),
    BodyPing,
    Str(<<"!","p","i","n">>),
    Str(<<"!","p","i","n","g","s">>),
    Str(<<"!","C","a","l","c"," ","2"," ","+"," ","2">>),
    Str(<<"!","c","a","l","c"," ","2"," ","+"," ","2">>),
    Str(<<"!","c","a","l","c"," ","2"," ","+">>),
    Str(<<"!","c","a","l","c"," ","2"," ","^"," ","3">>),
    Str(<<"!","c","a","l","c"," ","1"," ","/"," ","0">>),
    Str(<<"!","c","a","l","c"," ","1","2">>),
    Str(<<"!","c","a","l","c">>),
    BodyNope,
    BodyHi,
    BodyBang }

\* the state in which process_events() is entered with the first batch, one
\* room of MaxPos messages with the given bodies, of one of the senders
BatchInit(bodies, senders) ==
  /\ pc = "processing"
  /\ access_token = AccessToken
  /\ user_id = BotId
  /\ device_id \in DeviceIds
  /\ sync_token = Cursor(MaxPos)
  /\ rooms = {DemoRoom}
  /\ running = TRUE
  /\ stats = [messages_sent |-> 1, commands_processed |-> 0, rooms_joined |-> 1]
  /\ since = None
  /\ \E body \in [1..MaxPos -> bodies], from \in senders, room \in RoomIds :
       /\ sync_data =
            [next_batch |-> Cursor(MaxPos),
             join |-> << [room_id |-> room,
                          events |-> [p \in 1..MaxPos |->
                                        [event_id |-> p, type |-> MessageType,
                                         sender |-> from, body |-> body[p]]]] >>]
       /\ todo = Flatten(sync_data.join)
  /\ prevRet = Cursor(MaxPos)
  /\ lastRet = Cursor(MaxPos)
  /\ routed = << >>
  /\ sent = << >>
  /\ dispatched = [p \in 1..MaxPos |-> 0]
  /\ handed = [p \in 1..MaxPos |-> 1]
  /\ raisedIds = {}
  /\ reqs = [register |-> 1, login |-> 0, profile |-> 1, create_room |-> 1]
  /\ outcome = "ok"
  /\ inflight = 0
  /\ cancelAt = "none"
  /\ commands = Registry
  /\ clock = 0
  /\ txLog = << >>

DispatchInit ==
  BatchInit(DispatchBodies, {OtherId})

DispatchNext ==
  \/ ProcessCommand
  \/ ProcessFreeText
  \/ ProcessDone

DispatchSpec == DispatchInit /\ [][DispatchNext]_vars

(***************************************************************************)
(* A third specification, for the texts of the replies: the first batch    *)
(* carries !help and !ping commands and free text of every category of     *)
(* handle_ai_response(), from either of two other users.                   *)
(***************************************************************************)
SecondId == "@bob:localhost"
Senders == { OtherId, SecondId }

ReplyBodies ==
  { Str(<<"!","h","e","l","p">>),
    Str(<<"!","h","e","l","p"," ","m","e">>),
    Str(<<"!","p","i","n","g">>),
    Str(<<"h","i">>),
    Str(<<"h","o","w"," ","a","r","e"," ","y","o","u">>),
    Str(<<"t","h","a","n","k"," ","h","o","w"," ","a","r","e"," ","y","o","u">>),
    Str(<<"t","h","a","n","k","s">>),
    Str(<<"o","k","!">>) }

ReplyInit ==
  BatchInit(ReplyBodies, Senders)

ReplySpec == ReplyInit /\ [][DispatchNext]_vars

(***************************************************************************)
(* Properties.                                                             *)
(***************************************************************************)
\* the entries of the batch run() holds, in the order process_events visits them
BatchEvents == [i \in 1..Len(Flatten(sync_data.join)) |-> Flatten(sync_data.join)[i][2]]
BatchRooms == [i \in 1..Len(Flatten(sync_data.join)) |-> Flatten(sync_data.join)[i][1]]

\* C1, as stated: the cursor sent in round n+1 is the cursor round n returned
\* (a round that failed returned none), and the first poll sends none.
C1_Original ==
  pc = "polling" =>
    since = (IF prevRet = NoRound THEN None ELSE prevRet)

\* C1, amended: the cursor a poll sends is the cursor returned by the latest
\* earlier round that returned one; a poll sends none as long as no round has
\* returned one (so the first poll sends none).
C1_SinceIsLatestReturned ==
  pc = "polling" => since = lastRet

\* a poll in flight that follows a failed round that follows a successful one
C1_Witness ==
  /\ pc = "polling"
  /\ prevRet = None
  /\ lastRet \in Cursors
  /\ since = lastRet

\* C2: the server issuing only cursors at or after the one it was sent, the
\* stored cursor, once set, is never reset to absent and never moves back,
\* in any step (successful poll, timeout, error status, exception, dispatch
\* failure).
C2_CursorMonotonic ==
  [][ sync_token # None =>
        /\ sync_token' # None
        /\ Pos(sync_token') >= Pos(sync_token) ]_vars

\* the cursor has advanced, a dispatch has failed, and the latest poll failed
C2_Witness ==
  /\ sync_token \in Cursors
  /\ Pos(sync_token) > 0
  /\ raisedIds # {}
  /\ prevRet = None
  /\ pc = "idle"

\* C3: while a batch is with process_events (and after its dispatch raised),
\* the stored cursor already is the batch's next_batch; and no event of a
\* batch whose dispatch raised is handed to process_events a second time.
C3_AdvanceBeforeDispatch ==
  /\ pc \in {"processing", "cooldown"} => sync_token = sync_data.next_batch
  /\ \A p \in raisedIds : handed[p] = 1

\* a later batch is being processed after the dispatch of an earlier one raised
C3_Witness ==
  /\ pc = "processing"
  /\ todo # << >>
  /\ raisedIds # {}
  /\ BatchIds(sync_data) \cap raisedIds = {}

\* C4: the server returning only events after the cursor it was sent, no
\* event is passed to handle_command or handle_ai_response more than once in
\* a run.
C4_RoutedAtMostOnce ==
  \A p \in 1..MaxPos : dispatched[p] <= 1

\* every event of the stream was routed, the last one in a later round of
\* its own
C4_Witness ==
  /\ \A p \in 1..MaxPos : dispatched[p] = 1
  /\ Len(routed) = 1
  /\ Len(BatchEvents) = 1
  /\ pc = "sleep"

\* C5: no call of handle_command or handle_ai_response, and no send that
\* answers an event, is for a message whose sender is the session identity.
C5_NoSelfEcho ==
  /\ \A i \in 1..Len(routed) : routed[i].sender # user_id
  /\ \A i \in 1..Len(sent) :
       sent[i].cause # 0 =>
         \E j \in 1..Len(routed) :
           /\ routed[j].event_id = sent[i].cause
           /\ routed[j].sender # user_id

\* a batch holding a message of the bot itself and a message of someone
\* else has been processed to the end
C5_Witness ==
  /\ pc = "sleep"
  /\ \E j \in 1..Len(BatchEvents) :
       /\ BatchEvents[j].type = MessageType
       /\ BatchEvents[j].sender = user_id
  /\ Len(routed) = 1

\* the inbound messages of the batch: the positions of the m.room.message
\* entries whose sender is not the session identity
InboundAt ==
  { j \in 1..Len(BatchEvents) :
      /\ BatchEvents[j].type = MessageType
      /\ BatchEvents[j].sender # user_id }

\* process_events() is over for the batch run() holds (it returned or raised)
BatchOver ==
  /\ pc \in {"sleep", "cooldown"}
  /\ sync_data # EmptyData

\* the ids in a room's timeline of the batch, and the ids routed for a room,
\* each in order
RECURSIVE IdsWhere(_, _)
IdsWhere(seq, keep) ==
  IF seq = << >>
  THEN << >>
  ELSE (IF keep[1] THEN << seq[1] >> ELSE << >>)
       \o IdsWhere(Tail(seq), Tail(keep))

InboundIds(room) ==
  IdsWhere([j \in 1..Len(BatchEvents) |-> BatchEvents[j].event_id],
           [j \in 1..Len(BatchEvents) |-> j \in InboundAt /\ BatchRooms[j] = room])

RoutedIds(room) ==
  IdsWhere([i \in 1..Len(routed) |-> routed[i].event_id],
           [i \in 1..Len(routed) |-> routed[i].room_id = room])

\* C6, as stated: when process_events is over, every inbound message of the
\* batch has been given to exactly one of handle_command and
\* handle_ai_response, exactly once, and has had exactly one send attempted.
C6_Original ==
  BatchOver =>
    \A j \in InboundAt :
      /\ Cardinality({ i \in 1..Len(routed) :
                         routed[i].event_id = BatchEvents[j].event_id }) = 1
      /\ Cardinality({ i \in 1..Len(sent) :
                         sent[i].cause = BatchEvents[j].event_id }) = 1

\* C7, as stated: when process_events is over, the messages routed for each
\* room are that room's m.room.message entries from other senders, in
\* timeline order.
C7_Original ==
  BatchOver =>
    \A room \in RoomIds : RoutedIds(room) = InboundIds(room)

\* C8: a routed message is given to handle_command exactly when the first
\* character of its body is "!"; the reply to a "!" body is a handler's text
\* or the unknown-command text, never a free-text reply, and the reply to any
\* other body is a free-text reply, made without a registry lookup.
C8_ClassifiedByLeadingMarker ==
  /\ \A i \in 1..Len(routed) :
       (routed[i].via = "handle_command")
         <=> (Len(routed[i].body) >= 1 /\ routed[i].body[1] = "!")
  /\ \A i \in 1..Len(routed) :
       routed[i].via \in {"handle_command", "handle_ai_response"}
  /\ \A i \in 1..Len(routed), k \in 1..Len(sent) :
       sent[k].cause = routed[i].event_id =>
         IF Len(routed[i].body) >= 1 /\ routed[i].body[1] = "!"
         THEN sent[k].body.kind \in {"handler", "unknown"}
         ELSE sent[k].body.kind = "ai"

\* a batch with an unregistered "!" command and a body that has its "!"
\* elsewhere has been routed
C8_Witness ==
  /\ \E i \in 1..Len(routed) : routed[i].body = BodyNope.text
  /\ \E i \in 1..Len(routed) : routed[i].body = BodyBang.text
  /\ Len(sent) = 2

\* the step is a call of handle_command (it adds the call to the history)
CommandCalled ==
  /\ Len(routed') = Len(routed) + 1
  /\ routed'[Len(routed')].via = "handle_command"

\* the token of the command just called is not one of the registry's keys
CalledUnknown ==
  Lower(Split1(routed'[Len(routed')].body)[1]) \notin Commands

\* C9: a call of handle_command with a token that is not in the registry
\* makes exactly one send, of the unknown-command text naming the token, to
\* the room of the message; nothing is raised: process_events goes on with
\* the next entry and run() does not reach its except branch.
C9_UnknownCommandFallback ==
  [][ (CommandCalled /\ CalledUnknown) =>
        /\ sent' = Append(sent,
                          [room_id |-> routed'[Len(routed')].room_id,
                           body |-> [kind |-> "unknown",
                                     key |-> Lower(Split1(routed'[Len(routed')].body)[1]),
                                     args |-> << >>, sender |-> None, pick |-> 0,
                                     out |-> NoOut],
                           cause |-> routed'[Len(routed')].event_id,
                           ok |-> sent'[Len(sent')].ok])
        /\ pc' = "processing"
        /\ todo' = Tail(todo) ]_vars

\* an unregistered command was dispatched and the loop went on to the next poll
C9_Witness ==
  /\ pc = "sleep"
  /\ \E i \in 1..Len(routed) :
       /\ routed[i].via = "handle_command"
       /\ routed[i].body = BodyNope.text
  /\ \E k \in 1..Len(sent) : sent[k].body.kind = "unknown" /\ ~ sent[k].ok

\* C10, as stated: every call of handle_command adds one to
\* commands_processed, and no other step changes it.
C10_Original ==
  [][ stats'.commands_processed =
        stats.commands_processed + (IF CommandCalled THEN 1 ELSE 0) ]_vars

\* C10, amended: a call of handle_command whose lower-cased first word is a
\* key of the registry adds one to commands_processed; a call with any other
\* token leaves it unchanged, and so does every other step.
C10_CountsRegisteredCommands ==
  [][ stats'.commands_processed =
        stats.commands_processed
          + (IF CommandCalled /\ ~ CalledUnknown THEN 1 ELSE 0) ]_vars

\* a registered and an unregistered command of one batch were dispatched
C10_Witness ==
  /\ Len(routed) = 2
  /\ routed[1].via = "handle_command"
  /\ routed[2].via = "handle_command"
  /\ stats.commands_processed = 1

\* two strings that differ at most in the case of their letters
EqualIgnoreCase(a, b) ==
  /\ Len(a) = Len(b)
  /\ \A i \in 1..Len(a) : LowerChar(a[i]) = LowerChar(b[i])

\* the first word of the i-th routed message: the body up to its first space
FirstWord(i) == Split1(routed[i].body)[1]

\* the calls of handle_command in the history, and the sends answering a call
CommandCalls == { i \in 1..Len(routed) : routed[i].via = "handle_command" }
RepliesTo(i) == { k \in 1..Len(sent) : sent[k].cause = routed[i].event_id }

\* C11: a command whose first word equals a registered token up to letter
\* case is answered by that token's handler; a command whose first word
\* equals no registered token up to letter case gets the unknown-command
\* text; so two commands whose first words differ only in letter case are
\* answered by the same handler (or both by none).
C11_LookupIgnoresCase ==
  /\ \A i \in CommandCalls : \A k \in RepliesTo(i) :
       IF \E t \in Commands : EqualIgnoreCase(FirstWord(i), t)
       THEN /\ sent[k].body.kind = "handler"
            /\ sent[k].body.key \in Commands
            /\ EqualIgnoreCase(FirstWord(i), sent[k].body.key)
       ELSE sent[k].body.kind = "unknown"
  /\ \A i \in CommandCalls, j \in CommandCalls :
       EqualIgnoreCase(FirstWord(i), FirstWord(j)) =>
         \A k \in RepliesTo(i), l \in RepliesTo(j) :
           /\ sent[k].body.kind = sent[l].body.kind
           /\ sent[k].body.key = sent[l].body.key

\* two commands of one batch whose first words differ in letter case only
\* were both answered by the handler of "!ping"
C11_Witness ==
  /\ pc = "processing"
  /\ todo = << >>
  /\ \E i \in CommandCalls, j \in CommandCalls :
       /\ FirstWord(i) # FirstWord(j)
       /\ EqualIgnoreCase(FirstWord(i), FirstWord(j))
       /\ \A k \in RepliesTo(i) \cup RepliesTo(j) :
            /\ sent[k].body.kind = "handler"
            /\ sent[k].body.key = <<"!","p","i","n","g">>
       /\ RepliesTo(i) # {} /\ RepliesTo(j) # {}

\* the text after the first space of the i-th routed message
RestOf(i) ==
  IF Len(Split1(routed[i].body)) > 1
  THEN Split1(routed[i].body)[2]
  ELSE << >>

\* C12: a command whose token is registered is answered by exactly one
\* send: to the room the command came from, with the text the token's
\* handler returned for the command's arguments and sender, whether or not
\* the send succeeds; no event has a second send made for it; and a failed
\* send takes the loop neither to its except branch nor out of run(): only
\* a body that is not a string does the former.
C12_SingleSendOfHandlerText ==
  /\ \A i \in 1..Len(routed) :
       LET cmd == Lower(FirstWord(i))
           args == RestOf(i)
       IN  (routed[i].via = "handle_command" /\ cmd \in Commands) =>
             \E k \in 1..Len(sent) :
               /\ RepliesTo(i) = {k}
               /\ sent[k].room_id = routed[i].room_id
               /\ sent[k].body =
                    [kind |-> "handler", key |-> cmd, args |-> args,
                     sender |-> routed[i].sender, pick |-> 0,
                     out |-> HandlerOut(cmd, args, routed[i].sender)]
  /\ \A k \in 1..Len(sent), l \in 1..Len(sent) :
       sent[k].cause = sent[l].cause => k = l
  /\ pc = "cooldown" => (todo # << >> /\ ~ IsString(Head(todo)[2].body))
  /\ (\E k \in 1..Len(sent) : ~ sent[k].ok) => pc \notin Ended

\* the send answering a registered command failed, the next message of the
\* batch was answered all the same, and the loop is on its way to the next
\* poll
C12_Witness ==
  /\ pc = "sleep"
  /\ Len(routed) = 2
  /\ routed[1].via = "handle_command"
  /\ Lower(FirstWord(1)) \in Commands
  /\ \E k \in RepliesTo(1) : ~ sent[k].ok
  /\ \E k \in RepliesTo(2) : sent[k].ok

\* the values of pc from setup_profile() on, cancellation aside
PastAuth ==
  {"profile", "create_room", "idle", "polling", "processing", "sleep",
   "cooldown", "stopped"}

\* C13: run() gets past register_bot() only with a session; the session
\* holds the access token, the user id and the device id of the response,
\* the same three fields whether the response was that of the registration
\* or, after M_USER_IN_USE, that of the login; the login is attempted only
\* after the registration was answered, and while it is pending no field
\* is set.
C13_SessionEstablished ==
  /\ pc \in PastAuth => user_id # None
  /\ user_id # None =>
       /\ access_token = AccessToken
       /\ user_id = BotId
       /\ device_id \in DeviceIds
  /\ (pc = "login" \/ reqs.login > 0) => reqs.register = 1
  /\ pc = "login" =>
       /\ reqs.login = 0
       /\ access_token = None /\ user_id = None /\ device_id = None

\* the registration was answered with M_USER_IN_USE, the login succeeded and
\* run() is about to set the profile with the session of the login response
C13_Witness ==
  /\ pc = "profile"
  /\ reqs.register = 1
  /\ reqs.login = 1
  /\ access_token = AccessToken
  /\ user_id = BotId
  /\ device_id \in DeviceIds

\* C14: a run makes at most one registration request and at most one login
\* request; as long as there is no session, run() is in register_bot() or
\* has ended, and no profile, room-creation, send or sync request has been
\* made; after a registration failure other than M_USER_IN_USE, and after a
\* login failure, run() has returned.
C14_AuthFailureIsFatal ==
  /\ reqs.register <= 1
  /\ reqs.login <= 1
  /\ user_id = None =>
       /\ pc \in {"register", "login", "returned", "cancelled"}
       /\ reqs.profile = 0
       /\ reqs.create_room = 0
       /\ sent = << >>
       /\ inflight = 0
       /\ prevRet = NoRound
       /\ ~ running
  /\ (user_id = None /\ reqs.register = 1 /\ cancelAt = "none") =>
       pc \in {"login", "returned"}
  /\ (user_id = None /\ reqs.login = 1 /\ cancelAt = "none") =>
       pc = "returned"

\* the registration was answered with M_USER_IN_USE, the login failed and
\* run() has returned
C14_Witness ==
  /\ pc = "returned"
  /\ user_id = None
  /\ reqs.register = 1
  /\ reqs.login = 1

\* C15, as stated: once setup_profile() has been called, whatever its
\* outcome, run() does not return: it goes on to create_demo_room() and the
\* loop (and ends only by cancellation).
C15_Original ==
  (reqs.profile = 1 /\ cancelAt = "none") => pc # "returned"

\* C16, as stated: a poll that ended in a timeout is followed by the short
\* sleep and the next poll, never by the 5 s sleep; a poll that ended in an
\* error status or an exception (connection failure, malformed body) is
\* followed by the 5 s sleep, never by the short one.
C16_Original ==
  /\ outcome = "timeout" => pc # "cooldown"
  /\ outcome \in {"status", "raised"} => pc # "sleep"

\* C17, as stated: with a session established, run() is over only if it
\* was cancelled from outside.
C17_Original ==
  (user_id # None /\ pc \in Ended) => cancelAt # "none"

\* C18, as stated: a cancellation takes effect only between iterations of
\* the loop: not while a GET /sync is in flight and not while a batch is
\* being processed.
C18_Original ==
  cancelAt \notin {"polling", "processing"}

\* the position of an event in flat, a batch in the order process_events
\* visits it
IndexIn(flat, id) ==
  CHOOSE j \in 1..Len(flat) : flat[j][2].event_id = id

\* C19: at most one GET /sync is outstanding, and one is outstanding
\* exactly while run() waits in sync_events(); while one is outstanding no
\* entry of a batch is waiting to be visited and nothing has been routed or
\* sent in the round; the entries waiting to be visited all belong to the
\* one batch run() holds; and the replies made to a room follow each other
\* in the order of the messages they answer in that room's timeline.
C19_SingleFlow ==
  /\ inflight <= 1
  /\ inflight = 1 <=> pc = "polling"
  /\ inflight = 1 => (todo = << >> /\ routed = << >> /\ sent = << >>)
  /\ todo # << >> =>
       LET flat == Flatten(sync_data.join)
       IN  \A i \in 1..Len(todo) : \E j \in 1..Len(flat) : flat[j] = todo[i]
  /\ Len(sent) > 1 =>
       LET flat == Flatten(sync_data.join)
           ids == { flat[j][2].event_id : j \in 1..Len(flat) }
       IN  \A k \in 1..Len(sent), l \in 1..Len(sent) :
             (k < l /\ sent[k].room_id = sent[l].room_id) =>
               /\ sent[k].cause \in ids
               /\ sent[l].cause \in ids
               /\ IndexIn(flat, sent[k].cause) < IndexIn(flat, sent[l].cause)

\* a batch with two messages in one room has been answered, after an
\* earlier round, and the next poll has not been issued yet
C19_Witness ==
  /\ pc = "sleep"
  /\ inflight = 0
  /\ Len(sent) = 2
  /\ sent[1].room_id = sent[2].room_id
  /\ sent[1].cause # 0
  /\ since # None

\* the calls of handle_command whose token is "!calc"
CalcCalls == { i \in CommandCalls : Lower(FirstWord(i)) = CalcToken }

\* C20: a "!calc" command is answered by exactly one send whose text is the
\* usage text for no arguments, the "{args} = {value}" text for an
\* expression that evaluates (2 + 2 gives 4, 2 ^ 3 gives 8, 12 gives 12)
\* and the "Invalid expression" text for one that does not (2 + and 1 / 0);
\* in each case process_events goes on: nothing leaves the handler.
C20_CalcReplies ==
  /\ \A i \in CalcCalls :
       \E k \in 1..Len(sent) :
         /\ RepliesTo(i) = {k}
         /\ sent[k].body.kind = "handler"
         /\ sent[k].body.args = RestOf(i)
         /\ sent[k].body.out.form \in {"usage", "result", "invalid"}
         /\ RestOf(i) = << >> => sent[k].body.out.form = "usage"
         /\ RestOf(i) = <<"2"," ","+"," ","2">> =>
              sent[k].body.out = [form |-> "result", value |-> 4]
         /\ RestOf(i) = <<"2"," ","^"," ","3">> =>
              sent[k].body.out = [form |-> "result", value |-> 8]
         /\ RestOf(i) = <<"1","2">> =>
              sent[k].body.out = [form |-> "result", value |-> 12]
         /\ RestOf(i) = <<"2"," ","+">> => sent[k].body.out.form = "invalid"
         /\ RestOf(i) = <<"1"," ","/"," ","0">> => sent[k].body.out.form = "invalid"
  /\ pc \in {"processing", "sleep"}
  /\ Len(routed) + Len(todo) = MaxPos

\* "!calc 2 +" was answered with the error text and the next message of the
\* batch, "!calc 2 + 2", with 4
C20_Witness ==
  /\ todo = << >>
  /\ \E i \in CalcCalls, j \in CalcCalls :
       /\ i < j
       /\ RestOf(i) = <<"2"," ","+">>
       /\ RestOf(j) = <<"2"," ","+"," ","2">>
       /\ \E k \in RepliesTo(i) : sent[k].body.out.form = "invalid"
       /\ \E l \in RepliesTo(j) : sent[l].body.out = [form |-> "result", value |-> 4]

(***************************************************************************)
(* The texts of the replies (ReplySpec).                                   *)
(***************************************************************************)
\* the calls of handle_ai_response in the history
AiCalls == { i \in 1..Len(routed) : routed[i].via = "handle_ai_response" }

\* the i-th routed message contains the word w, letter case ignored
Has(i, w) == Contains(Lower(routed[i].body), w)

\* the template sets of the four categories, for a message m of sender s
GreetingTexts(s) ==
  { [kind |-> "ai", key |-> "greeting", args |-> << >>, sender |-> s,
     pick |-> n, out |-> NoOut] : n \in 1..3 }
WellbeingTexts ==
  { [kind |-> "ai", key |-> "wellbeing", args |-> << >>, sender |-> None,
     pick |-> n, out |-> NoOut] : n \in 1..3 }
ThanksTexts ==
  { [kind |-> "ai", key |-> "thanks", args |-> << >>, sender |-> None,
     pick |-> n, out |-> NoOut] : n \in 1..3 }
GenericTexts(m, s) ==
  { [kind |-> "ai", key |-> "generic", args |-> << >>, sender |-> s,
     pick |-> 1, out |-> [form |-> "quote", value |-> q]] : q \in 1..5 }
  \cup { [kind |-> "ai", key |-> "generic", args |-> m, sender |-> None,
          pick |-> 2, out |-> NoOut],
         [kind |-> "ai", key |-> "generic", args |-> << >>, sender |-> s,
          pick |-> 3, out |-> NoOut] }

\* the step is a call of handle_ai_response
AiStep ==
  /\ Len(routed') = Len(routed) + 1
  /\ routed'[Len(routed')].via = "handle_ai_response"

\* C21: a free-text message is answered by exactly one send, to its room,
\* whose text is one of the templates of the first rule the message matches
\* in the order greeting ("hello" or "hi" anywhere in the text), well-being
\* ("how are you"), gratitude ("thank"), generic; and the call changes
\* nothing of the bot but what its send changes: the messages-sent counter,
\* by one if the send succeeded.
C21_RuleOrder ==
  /\ [](\A i \in AiCalls :
          \E k \in 1..Len(sent) :
            /\ RepliesTo(i) = {k}
            /\ sent[k].room_id = routed[i].room_id
            /\ sent[k].body \in
                 IF Has(i, <<"h","e","l","l","o">>) \/ Has(i, <<"h","i">>)
                 THEN GreetingTexts(routed[i].sender)
                 ELSE IF Has(i, <<"h","o","w"," ","a","r","e"," ","y","o","u">>)
                 THEN WellbeingTexts
                 ELSE IF Has(i, <<"t","h","a","n","k">>)
                 THEN ThanksTexts
                 ELSE GenericTexts(routed[i].body, routed[i].sender))
  /\ [][AiStep =>
          /\ UNCHANGED << session, sync_token, rooms, running, commands, pc >>
          /\ Len(sent') = Len(sent) + 1
          /\ stats' = [stats EXCEPT !.messages_sent =
                         IF sent'[Len(sent')].ok THEN @ + 1 ELSE @]]_vars

\* a message that thanks and asks "how are you" got a well-being text, and
\* one that only thanks got a gratitude text
C21_Witness ==
  /\ todo = << >>
  /\ \E i \in AiCalls, j \in AiCalls :
       /\ Has(i, <<"t","h","a","n","k">>)
       /\ \A k \in RepliesTo(i) : sent[k].body.key = "wellbeing"
       /\ ~ Has(j, <<"h","o","w"," ","a","r","e"," ","y","o","u">>)
       /\ \A k \in RepliesTo(j) : sent[k].body.key = "thanks"

\* the ways sync_events() ends without a batch
FailedPoll == {"timeout", "status", "raised"}

C23_SessionFieldsFixed ==
  [][(user_id # None /\ access_token # None) =>
       (user_id' = user_id /\ access_token' = access_token
        /\ device_id' = device_id)]_vars

\* the session is established and the cursor has moved twice since
C23_Witness ==
  /\ user_id = BotId
  /\ access_token = AccessToken
  /\ sync_token = Cursor(2)
  /\ prevRet # None
  /\ pc = "sleep"

MaxMs ==
  3
MaxSends ==
  3

\* tx_id = f"bot_{int(time.time() * 1000)}"
TxId(ms) == [prefix |-> "bot_", ms |-> ms]

TxInit ==
  /\ pc = "sending"
  /\ access_token = AccessToken
  /\ user_id = BotId
  /\ device_id \in DeviceIds
  /\ sync_token = None
  /\ rooms = {DemoRoom}
  /\ running = FALSE
  /\ stats = [messages_sent |-> 0, commands_processed |-> 0, rooms_joined |-> 1]
  /\ since = None
  /\ sync_data = EmptyData
  /\ todo = << >>
  /\ prevRet = NoRound
  /\ lastRet = None
  /\ routed = << >>
  /\ sent = << >>
  /\ dispatched = [p \in 1..MaxPos |-> 0]
  /\ handed = [p \in 1..MaxPos |-> 0]
  /\ raisedIds = {}
  /\ reqs = [register |-> 1, login |-> 0, profile |-> 1, create_room |-> 1]
  /\ outcome = "none"
  /\ inflight = 0
  /\ cancelAt = "none"
  /\ commands = Registry
  /\ clock = 0
  /\ txLog = << >>

\* a millisecond passes
Tick ==
  /\ pc = "sending"
  /\ clock < MaxMs
  /\ clock' = clock + 1
  /\ UNCHANGED << pc, session, sync_token, rooms, running, stats, since,
                  sync_data, todo, history, aux, commands, txLog >>

\* send_message(room_id, message): the id is read off the clock, the PUT is
\* issued under it, and a 200 increments messages_sent
SendMessage ==
  /\ pc = "sending"
  /\ Len(txLog) < MaxSends
  /\ \E room_id \in RoomIds, res \in SendResults :
       /\ txLog' = Append(txLog, TxId(clock))
       /\ stats' = StatsAfterSend(stats, res)
       /\ sent' = Append(sent, SendEntry(room_id, WelcomeText, 0, res))
  /\ UNCHANGED << pc, session, sync_token, rooms, running, since, sync_data,
                  todo, prevRet, lastRet, routed, dispatched, handed, raisedIds,
                  aux, commands, clock >>

TxNext ==
  \/ Tick
  \/ SendMessage

TxSpec == TxInit /\ [][TxNext]_vars

\* C25 as stated: no two send requests of a run carry the same transaction
\* id.  It does not hold: two sends within one millisecond carry the same
\* one.
C25_Original ==
  \A i \in 1..Len(txLog), j \in 1..Len(txLog) :
    txLog[i] = txLog[j] => i = j

\* the calls of handle_command whose token, lower-cased, is t
CallsOf(t) == { i \in CommandCalls : Lower(FirstWord(i)) = t }

\* C26: a !help command is answered by exactly one send, to its room, of
\* the help text, which is the same text for every argument string and
\* sender; a !ping command is answered by exactly one send, to its room, of
\* the Pong text addressed to the command's sender.
C26_HelpAndPing ==
  /\ \A i \in CallsOf(<<"!","h","e","l","p">>) :
       \E k \in 1..Len(sent) :
         /\ RepliesTo(i) = {k}
         /\ sent[k].room_id = routed[i].room_id
         /\ sent[k].body.kind = "handler"
         /\ sent[k].body.out = [form |-> "help", value |-> 0]
  /\ \A i \in CallsOf(<<"!","p","i","n","g">>) :
       \E k \in 1..Len(sent) :
         /\ RepliesTo(i) = {k}
         /\ sent[k].room_id = routed[i].room_id
         /\ sent[k].body.kind = "handler"
         /\ sent[k].body.out.form = "pong"
         /\ sent[k].body.sender = routed[i].sender

\* the second user's "!help me" and "!ping" were both answered
C26_Witness ==
  /\ todo = << >>
  /\ \E i \in CallsOf(<<"!","h","e","l","p">>), j \in CallsOf(<<"!","p","i","n","g">>) :
       /\ RestOf(i) # << >>
       /\ routed[i].sender = SecondId
       /\ RepliesTo(i) # {} /\ RepliesTo(j) # {}

\* the event ids of the entries process_events() has not visited (its first
\* entry is the one being visited)
Unvisited == { todo[n][2].event_id : n \in 2..Len(todo) }

\* C27: when an entry of a batch raises, the cursor is already the batch's
\* next_batch, the entries behind it have not been routed, and no entry of
\* an abandoned batch is ever routed afterwards: the next poll asks for what
\* follows the cursor, so the skipped entries are lost, not retried.
C27_RestOfBatchLost ==
  /\ [](pc = "cooldown" =>
          /\ todo # << >>
          /\ sync_token = sync_data.next_batch
          /\ \A p \in Unvisited :
               /\ p \in raisedIds
               /\ p <= Pos(sync_token)
               /\ dispatched[p] = 0)
  /\ [][\A p \in raisedIds : dispatched'[p] = dispatched[p]]_vars
  /\ [][pc = "cooldown" => (pc' # "processing" /\ todo' = << >>)]_vars

\* the first entry of a batch raised while a text message of another user
\* sat behind it: the cursor is past both and the message was not routed
C27_Witness ==
  /\ pc = "cooldown"
  /\ Len(todo) = 2
  /\ todo[2][2].type = MessageType
  /\ todo[2][2].sender = OtherId
  /\ IsString(todo[2][2].body)
  /\ dispatched[todo[2][2].event_id] = 0
  /\ Pos(sync_token) = todo[2][2].event_id

\* the step makes a send: the send history grows by one entry
SendStep == Len(sent') = Len(sent) + 1

\* C28: messages_sent grows by exactly one in a step whose send was
\* acknowledged with 200, and is unchanged by every other step: a send that
\* failed, or no send at all; so it never decreases.
C28_CountsAcknowledgedSends ==
  [][stats'.messages_sent =
       IF SendStep /\ sent'[Len(sent')].ok
       THEN stats.messages_sent + 1
       ELSE stats.messages_sent]_vars

\* in one round a reply was acknowledged and another was not: the counter
\* shows the welcome message and the one reply
C28_Witness ==
  /\ Len(sent) = 2
  /\ sent[1].ok
  /\ ~ sent[2].ok
  /\ sent[1].cause # 0
  /\ stats.messages_sent = 2

\* an authenticated request has been issued: the profile PUT, the room
\* POST, a send or a poll
AuthenticatedRequestMade ==
  \/ reqs.profile > 0
  \/ reqs.create_room > 0
  \/ stats.messages_sent > 0
  \/ sent # << >>
  \/ outcome # "none"
  \/ inflight > 0

C30_RoomBookkeeping ==
  /\ [](/\ stats.rooms_joined = Cardinality(rooms)
        /\ rooms \subseteq {DemoRoom}
        /\ reqs.create_room = 0 => rooms = {}
        /\ (reqs.create_room = 1 /\ cancelAt = "none") =>
             pc \in {"idle", "polling", "processing", "sleep", "cooldown"}
        /\ (pc = "idle" /\ outcome = "none") =>
             IF rooms = {DemoRoom}
             THEN /\ Len(sent) = 1
                  /\ sent[1].room_id = DemoRoom
                  /\ sent[1].body = WelcomeText
                  /\ sent[1].cause = 0
             ELSE sent = << >> /\ stats.messages_sent = 0)
  /\ [][reqs.create_room = 1 =>
          (rooms' = rooms /\ stats'.rooms_joined = stats.rooms_joined)]_vars

\* the room was not created and a batch of the loop is being processed
C30_Witness ==
  /\ rooms = {}
  /\ stats.rooms_joined = 0
  /\ reqs.create_room = 1
  /\ pc = "processing"
  /\ Len(routed) > 0

(***************************************************************************)
(* Liveness (LiveSpec).  The steps of run() and the answers of the         *)
(* transport are taken when they can be: every await of the loop is        *)
(* bounded (the GET by its 15 s ClientTimeout, the sleeps by their         *)
(* durations) or answered by the transport.  Cancellation is the           *)
(* environment's choice and has no fairness.                               *)
(***************************************************************************)
\* a step of the bot or an answer of the transport
Progress ==
  \/ RegisterOk
  \/ RegisterInUse
  \/ RegisterFailed
  \/ LoginOk
  \/ LoginFailed
  \/ ProfileDone
  \/ ProfileRaised
  \/ CreateRoomOk
  \/ CreateRoomFailed
  \/ IssuePoll
  \/ SyncOk
  \/ SyncTimeout
  \/ SyncBadStatus
  \/ SyncRaised
  \/ ProcessSkip
  \/ ProcessOwn
  \/ ProcessRaise
  \/ ProcessCommand
  \/ ProcessFreeText
  \/ ProcessDone
  \/ Sleep
  \/ CoolDown

LiveSpec == Init /\ [][Next]_vars /\ WF_vars(Progress)

\* the n-th entry left of the batch is a text message of another user
Answerable(n) ==
  /\ todo[n][2].type = MessageType
  /\ ~ IsOwnMessage(todo[n][2].sender, user_id)
  /\ IsString(todo[n][2].body)

\* an entry left of the batch raises when it is visited
BatchRaises ==
  \E n \in 1..Len(todo) :
    /\ todo[n][2].type = MessageType
    /\ ~ IsOwnMessage(todo[n][2].sender, user_id)
    /\ ~ IsString(todo[n][2].body)

\* message p is waiting in a batch whose processing will not raise
Waiting(p) ==
  /\ pc = "processing"
  /\ ~ BatchRaises
  /\ \E n \in 1..Len(todo) : todo[n][2].event_id = p /\ Answerable(n)

\* C31 as stated: every outstanding poll is followed by the loop being idle
\* again; while the loop is idle and its flag is set a new poll follows;
\* and every text message of another user in a batch whose processing does
\* not raise has a reply sent for it.  It does not hold: the run can be
\* cancelled while the poll is outstanding or the batch is being processed.
C31_Original ==
  /\ (pc = "polling") ~> (pc = "idle")
  /\ (pc = "idle" /\ running) ~> (pc = "polling" \/ pc \in Ended)
  /\ \A p \in 1..MaxPos : Waiting(p) ~> (dispatched[p] > 0)

=============================================================================
